---------------------------- MODULE Spec2Model ----------------------------
(***************************************************************************)
(* Model of the invoice extraction pipeline (src/api/pipeline.py) and of   *)
(* the /extract endpoint that calls it (src/api/main.py).                  *)
(*                                                                         *)
(* Two specifications share the variables:                                 *)
(*   Spec          one request, either POST /extract or a direct call of   *)
(*                 process_pdf, stepping through classify, text            *)
(*                 extraction, structured extraction and the response;     *)
(*   SpecValidate  validate_invoice applied to every Invoice of a bounded  *)
(*                 input set.                                              *)
(*                                                                         *)
(* Amounts are Python floats.  The model draws them from the binary grid   *)
(* k / AmountScale, on which float addition, subtraction and comparison    *)
(* are exact, and carries the integer k.  Scores are carried in            *)
(* hundredths.  Strings that the code inspects character by character      *)
(* (treatment descriptions, keywords) are sequences of one-character       *)
(* strings; strings it only tests for presence are plain strings.          *)
(***************************************************************************)
EXTENDS Integers, Sequences, FiniteSets, TLC

VARIABLES
    pc,           \* position of the request: "idle", "classify",
                  \* "extract_text", "llm", "returned", "raised", "done"
    entry,        \* "http" (POST /extract), "direct" (process_pdf), "validate"
    upload,       \* the request's inputs
    llm_model,    \* process_pdf's llm_model parameter
    pdf_type,     \* detect_pdf_type's label
    raw_text,     \* the text handed to extract_structured_data
    calls,        \* the calls made so far, in call order, each with the
                  \* model it names (if any) and how it ended
    invoice,      \* the Invoice, optional
    validation,   \* the validation mapping: a report or EmptyDict
    outcome,      \* how the call ended: NoOutcome, Return(..) or Raise(..)
    http_status   \* the endpoint's response status (0: none yet)

vars == <<pc, entry, upload, llm_model, pdf_type, raw_text, calls,
          invoice, validation, outcome, http_status>>

(***************************************************************************)
(* Optional values (T | None): None is the empty set, a present value v is *)
(* the singleton {v}.                                                      *)
(***************************************************************************)
None == {}
Some(v) == {v}
The(x) == CHOOSE v \in x : TRUE

(***************************************************************************)
(* Bounds of the model.                                                    *)
(***************************************************************************)
MaxTreatments == 3
MaxAmount == 2

(***************************************************************************)
(* Configuration constants.                                                *)
(***************************************************************************)
OCR_MODEL == "glm-ocr"
LLM_MODEL_LIGHT == "qwen3:4b"
LLM_MODEL == "qwen3:8b"
TEXT_THRESHOLD == 30

\* amount: float.  One unit of the model is 1/AmountScale.
AmountScale == 32
\* The tolerance 0.05 of total_mismatch, as ToleranceNum / ToleranceDen.
ToleranceNum == 5
ToleranceDen == 100

(***************************************************************************)
(* Character strings.                                                      *)
(***************************************************************************)
UpperChars ==
    <<"A","B","C","D","E","F","G","H","I","J","K","L","M",
      "N","O","P","Q","R","S","T","U","V","W","X","Y","Z">>
LowerChars ==
    <<"a","b","c","d","e","f","g","h","i","j","k","l","m",
      "n","o","p","q","r","s","t","u","v","w","x","y","z">>

\* str.lower() on one character
LowerChar(c) ==
    IF \E i \in 1..Len(UpperChars) : UpperChars[i] = c
    THEN LowerChars[CHOOSE i \in 1..Len(UpperChars) : UpperChars[i] = c]
    ELSE c

\* str.lower()
Lower(s) == [i \in 1..Len(s) |-> LowerChar(s[i])]

\* kw in s
Contains(s, kw) ==
    \E i \in 0..(Len(s) - Len(kw)) :
        \A j \in 1..Len(kw) : s[i + j] = kw[j]

SUM_KEYWORDS ==
    { <<"g","e","s","a","m","t">>,
      <<"g","e","s","a","m","t","b","e","t","r","a","g">>,
      <<"t","o","t","a","l">>,
      <<"h","o","n","o","r","a","r"," ","g","e","s","a","m","t">>,
      <<"s","u","m","m","e">>,
      <<"s","u","n","n","e">> }

(***************************************************************************)
(* Schema.  Only the fields some modelled operation reads are carried; the *)
(* remaining fields of Doctor, Patient and Invoice are never read.         *)
(***************************************************************************)
Doctor(first_name, last_name, specialty, practice_address) ==
    [first_name |-> first_name, last_name |-> last_name,
     specialty |-> specialty, practice_address |-> practice_address]

Patient(first_name, last_name, date_of_birth, social_security_number) ==
    [first_name |-> first_name, last_name |-> last_name,
     date_of_birth |-> date_of_birth,
     social_security_number |-> social_security_number]

Treatment(code, description, amount) ==
    [code |-> code, description |-> description, amount |-> amount]

\* A faulty variant of TruthyAmount: "is not None" in place of truthiness
PresentAmount(a) == a # None

\* Python truthiness of a float | None
TruthyAmount(a) == a # None /\ The(a) # 0

\* Python truthiness of a str | None
TruthyStr(s) == s # None /\ Len(The(s)) > 0

\* Python truthiness of a list | None
TruthyList(l) == l # None /\ Len(The(l)) > 0

(***************************************************************************)
(* Validation.                                                             *)
(***************************************************************************)
NoOutcome == [kind |-> "none"]
Return(v) == [kind |-> "return", value |-> v]
Raise(e) == [kind |-> "raise", error |-> e]

\* {}
EmptyDict == << >>

\* One entry of calls; ok is FALSE when the call raised
Call(fn, model, ok) == [fn |-> fn, model |-> model, ok |-> ok]

RECURSIVE SumSeq(_)
\* sum(amounts)
SumSeq(s) == IF s = << >> THEN 0 ELSE s[1] + SumSeq(Tail(s))

Abs(x) == IF x < 0 THEN -x ELSE x

\* [t.amount for t in invoice.treatments if t.amount]
Amounts(treatments) ==
    LET kept == SelectSeq(treatments, LAMBDA t : TruthyAmount(t.amount))
    IN  [i \in 1..Len(kept) |-> The(kept[i].amount)]

\* invoice.treatments[-1].description.lower() if ... else ""
LastDesc(treatments) ==
    LET d == treatments[Len(treatments)].description
    IN  IF TruthyStr(d) THEN Lower(The(d)) ELSE << >>

\* abs(calc - invoice.total_amount) > 0.05, in units of 1/AmountScale
TotalMismatch(calc, total) ==
    Abs(calc - total) * ToleranceDen > ToleranceNum * AmountScale

\* (calc - last) == last
LastEqualsSumOfOthers(calc, last) == (calc - last) = last

\* any(kw in last_desc for kw in SUM_KEYWORDS)
LooksLikeSum(last_desc) == \E kw \in SUM_KEYWORDS : Contains(last_desc, kw)

\* the 13 presence flags
PresenceFlags(inv) ==
    [invoice_date_missing |-> inv.invoice_date = None,
     invoice_number_missing |-> inv.invoice_number = None,
     diagnosis_missing |-> inv.diagnosis = None,
     treatments_missing |-> ~TruthyList(inv.treatments),
     total_amount_missing |-> inv.total_amount = None,
     doctor_first_name_missing |->
        inv.doctor = None \/ The(inv.doctor).first_name = None,
     doctor_last_name_missing |->
        inv.doctor = None \/ The(inv.doctor).last_name = None,
     doctor_specialty_missing |->
        inv.doctor = None \/ The(inv.doctor).specialty = None,
     doctor_practice_address_missing |->
        inv.doctor = None \/ The(inv.doctor).practice_address = None,
     patient_first_name_missing |->
        inv.patient = None \/ The(inv.patient).first_name = None,
     patient_last_name_missing |->
        inv.patient = None \/ The(inv.patient).last_name = None,
     patient_date_of_birth_missing |->
        inv.patient = None \/ The(inv.patient).date_of_birth = None,
     patient_social_security_number_missing |->
        inv.patient = None \/ The(inv.patient).social_security_number = None]

\* the guard of the consistency checks: invoice.treatments and invoice.total_amount
ConsistencyGuard(inv) ==
    TruthyList(inv.treatments) /\ TruthyAmount(inv.total_amount)

\* the three consistency flags of the guarded branch; amounts is not empty
ComputedConsistencyFlags(inv) ==
    LET amounts == Amounts(The(inv.treatments))
        calc == SumSeq(amounts)
        last == amounts[Len(amounts)]
        last_desc == LastDesc(The(inv.treatments))
    IN  [total_mismatch |-> TotalMismatch(calc, The(inv.total_amount)),
         last_treatment_equals_sum_of_others |->
            LastEqualsSumOfOthers(calc, last),
         last_treatment_looks_like_sum |-> LooksLikeSum(last_desc)]

\* the else branch
DefaultConsistencyFlags ==
    [total_mismatch |-> FALSE,
     last_treatment_equals_sum_of_others |-> FALSE,
     last_treatment_looks_like_sum |-> FALSE]

\* the two flag groups as one mapping
MergeFlags(presence, consistency) ==
    [n \in (DOMAIN presence) \cup (DOMAIN consistency) |->
        IF n \in DOMAIN presence THEN presence[n] ELSE consistency[n]]

\* sum(flags.values())
TrueCount(flags) == Cardinality({n \in DOMAIN flags : flags[n]})

\* round(num / den) to the nearest integer, ties to even, as Python's round
RoundHalfEven(num, den) ==
    LET q == num \div den
        r == num % den
    IN  IF 2 * r > den THEN q + 1
        ELSE IF 2 * r < den THEN q
        ELSE IF q % 2 = 0 THEN q ELSE q + 1

\* A faulty variant of Score: cut to two decimals, not rounded
ScoreTruncated(flags) ==
    LET len == Cardinality(DOMAIN flags)
    IN  (100 * (len - TrueCount(flags))) \div len

\* round(1 - sum(flags.values()) / len(flags), 2), in hundredths
Score(flags) ==
    LET len == Cardinality(DOMAIN flags)
    IN  RoundHalfEven(100 * (len - TrueCount(flags)), len)

\* amounts[-1] raises IndexError on an empty list
validate_invoice(inv) ==
    IF ConsistencyGuard(inv) /\ Amounts(The(inv.treatments)) = << >>
    THEN Raise("IndexError")
    ELSE LET flags == MergeFlags(PresenceFlags(inv),
                         IF ConsistencyGuard(inv)
                         THEN ComputedConsistencyFlags(inv)
                         ELSE DefaultConsistencyFlags)
         IN  Return([score |-> Score(flags), flags |-> flags])

(***************************************************************************)
(* Bounded inputs.                                                         *)
(***************************************************************************)
X == Some("x")

\* [invoice_date, invoice_number, diagnosis, doctor, patient] of the inputs
HeaderInputs ==
    { <<None, None, None, None, None>>,
      <<X, None, None, Some(Doctor(None, None, None, None)), None>>,
      <<None, X, None, None, Some(Patient(None, X, None, X))>>,
      <<None, None, X, Some(Doctor(X, X, None, None)), None>>,
      <<X, X, None, Some(Doctor(None, None, X, X)),
        Some(Patient(X, None, X, None))>>,
      <<X, X, X, Some(Doctor(X, X, X, X)), None>>,
      <<X, X, X, None, Some(Patient(X, X, X, X))>>,
      <<X, X, X, Some(Doctor(X, X, X, X)), Some(Patient(X, X, X, X))>> }

DescriptionInputs ==
    {None, Some(<<"S","u","m","m","e">>), Some(<<"L","a","b","o","r">>)}

AmountInputs == {None} \cup {Some(a) : a \in 0..MaxAmount}

\* Treatment lists of 1..MaxTreatments lines; the code reads the description
\* of the last line only, so the other lines carry none.
TreatmentLists ==
    UNION { { [i \in 1..n |->
                 Treatment(None, IF i = n THEN d ELSE None, amts[i])] :
              amts \in [1..n -> AmountInputs], d \in DescriptionInputs } :
            n \in 1..MaxTreatments }

TreatmentsInputs == {None, Some(<< >>)} \cup {Some(l) : l \in TreatmentLists}

InvoiceInputs ==
    { [invoice_date |-> h[1], invoice_number |-> h[2], diagnosis |-> h[3],
       doctor |-> h[4], patient |-> h[5],
       treatments |-> t, total_amount |-> a] :
      h \in HeaderInputs, t \in TreatmentsInputs, a \in AmountInputs }

(***************************************************************************)
(* SpecValidate: validate_invoice on every Invoice of InvoiceInputs.       *)
(***************************************************************************)
InitValidate ==
    /\ pc = "validate"
    /\ entry = "validate"
    /\ upload = None
    /\ llm_model = None
    /\ pdf_type = None
    /\ raw_text = None
    /\ calls = << >>
    /\ invoice \in {Some(inv) : inv \in InvoiceInputs}
    /\ validation = EmptyDict
    /\ outcome = NoOutcome
    /\ http_status = 0

\* one call of validate_invoice(invoice)
ValidateCall ==
    /\ pc = "validate"
    /\ LET res == validate_invoice(The(invoice))
       IN  /\ outcome' = res
           /\ validation' = IF res.kind = "return" THEN res.value ELSE EmptyDict
    /\ pc' = "done"
    /\ calls' = Append(calls, Call("validate_invoice", None,
                                   validate_invoice(The(invoice)).kind = "return"))
    /\ UNCHANGED <<entry, upload, llm_model, pdf_type, raw_text, invoice,
                   http_status>>

NextValidate == ValidateCall

SpecValidate == InitValidate /\ [][NextValidate]_vars

(***************************************************************************)
(* The pipeline and the endpoint.                                          *)
(***************************************************************************)
\* s.endswith(suffix)
EndsWith(s, suffix) ==
    /\ Len(s) >= Len(suffix)
    /\ \A j \in 1..Len(suffix) : s[Len(s) - Len(suffix) + j] = suffix[j]

PdfSuffix == <<".","p","d","f">>

FilenameInputs ==
    { <<"a",".","p","d","f">>, <<"a",".","p","n","g">>,
      <<"a",".","P","D","F">> }

\* The uploaded bytes: whether the PDF engine can open them, and the number
\* of characters of page text it finds.
PdfInputs ==
    {[readable |-> FALSE, text_len |-> 0]} \cup
    {[readable |-> TRUE, text_len |-> n] :
        n \in {0, TEXT_THRESHOLD - 1, TEXT_THRESHOLD, TEXT_THRESHOLD + 1}}

\* the model form field of POST /extract
FormModelInputs == {None, Some(""), Some(LLM_MODEL)}

\* the llm_model argument of a direct process_pdf call
LlmModelInputs == {None, Some(LLM_MODEL_LIGHT), Some(LLM_MODEL)}

\* Invoices a model response parses to
ResponseInvoices ==
    { inv \in InvoiceInputs :
        /\ inv.treatments # None => Len(The(inv.treatments)) <= 1
        /\ inv.invoice_number = inv.diagnosis
        /\ (inv.doctor = None) = (inv.patient = None) }

\* What the generative extraction service does with one request
LlmResponses ==
    {[kind |-> "unavailable", invoice |-> None],
     [kind |-> "malformed", invoice |-> None]} \cup
    {[kind |-> "conformant", invoice |-> Some(inv)] : inv \in ResponseInvoices}

\* "digital" if len(text) >= TEXT_THRESHOLD else "scan"
PdfTypeOf(text_len) == IF text_len >= TEXT_THRESHOLD THEN "digital" ELSE "scan"

\* model or LLM_MODEL_LIGHT
EffectiveModel(model) ==
    IF model # None /\ The(model) # "" THEN The(model) ELSE LLM_MODEL_LIGHT

Init ==
    /\ pc = "idle"
    /\ entry = "none"
    /\ upload = None
    /\ llm_model = None
    /\ pdf_type = None
    /\ raw_text = None
    /\ calls = << >>
    /\ invoice = None
    /\ validation = EmptyDict
    /\ outcome = NoOutcome
    /\ http_status = 0

\* POST /extract up to its call of process_pdf
ExtractInvoiceBegin(filename, model, pdf) ==
    /\ pc = "idle"
    /\ entry' = "http"
    /\ upload' = Some([filename |-> Some(filename), model |-> model,
                       pdf |-> pdf])
    /\ IF ~EndsWith(filename, PdfSuffix)
       THEN /\ http_status' = 400
            /\ pc' = "done"
            /\ UNCHANGED llm_model
       ELSE /\ llm_model' = Some(EffectiveModel(model))
            /\ pc' = "classify"
            /\ UNCHANGED http_status
    /\ UNCHANGED <<pdf_type, raw_text, calls, invoice, validation, outcome>>

\* process_pdf(pdf_bytes) or process_pdf(pdf_bytes, llm_model) called directly
ProcessPdfBegin(pdf, model) ==
    /\ pc = "idle"
    /\ entry' = "direct"
    /\ upload' = Some([filename |-> None, model |-> model, pdf |-> pdf])
    /\ llm_model' = model
    /\ pc' = "classify"
    /\ UNCHANGED <<pdf_type, raw_text, calls, invoice, validation, outcome,
                   http_status>>

\* pdf_type = detect_pdf_type(pdf_bytes); pymupdf.open raises on bytes it
\* cannot open
DetectPdfType ==
    /\ pc = "classify"
    /\ calls' = Append(calls, Call("detect_pdf_type", None,
                                   The(upload).pdf.readable))
    /\ IF ~The(upload).pdf.readable
       THEN /\ outcome' = Raise("FileDataError")
            /\ pc' = "raised"
            /\ UNCHANGED pdf_type
       ELSE /\ pdf_type' = Some(PdfTypeOf(The(upload).pdf.text_len))
            /\ pc' = "extract_text"
            /\ UNCHANGED outcome
    /\ UNCHANGED <<entry, upload, llm_model, raw_text, invoice, validation,
                   http_status>>

\* raw_text = extract_text_digital(pdf_bytes)
ExtractTextDigital ==
    /\ pc = "extract_text"
    /\ pdf_type = Some("digital")
    /\ calls' = Append(calls, Call("extract_text_digital", None, TRUE))
    /\ raw_text' = Some("markdown")
    /\ pc' = "llm"
    /\ UNCHANGED <<entry, upload, llm_model, pdf_type, invoice, validation,
                   outcome, http_status>>

\* A faulty variant of ExtractTextScan: the scan path taken whatever the label
ExtractTextScanAnyLabel(available) ==
    /\ pc = "extract_text"
    /\ calls' = calls \o <<Call("extract_text_scan", None, available),
                           Call("ollama.chat", Some(OCR_MODEL), available)>>
    /\ IF ~available
       THEN /\ outcome' = Raise("OcrServiceError")
            /\ pc' = "raised"
            /\ UNCHANGED raw_text
       ELSE /\ raw_text' = Some("ocr")
            /\ pc' = "llm"
            /\ UNCHANGED outcome
    /\ UNCHANGED <<entry, upload, llm_model, pdf_type, invoice, validation,
                   http_status>>

\* raw_text = extract_text_scan(pdf_bytes); ollama.chat raises when the OCR
\* service fails
ExtractTextScan(available) ==
    /\ pc = "extract_text"
    /\ pdf_type # Some("digital")
    /\ calls' = calls \o <<Call("extract_text_scan", None, available),
                           Call("ollama.chat", Some(OCR_MODEL), available)>>
    /\ IF ~available
       THEN /\ outcome' = Raise("OcrServiceError")
            /\ pc' = "raised"
            /\ UNCHANGED raw_text
       ELSE /\ raw_text' = Some("ocr")
            /\ pc' = "llm"
            /\ UNCHANGED outcome
    /\ UNCHANGED <<entry, upload, llm_model, pdf_type, invoice, validation,
                   http_status>>

\* A faulty variant of extract_structured_data: the request inside the try, so that
\* a failed request is answered like a response that is no Invoice
extract_structured_data_masking(model, resp) ==
    IF model = None \/ resp.kind \in {"unavailable", "malformed"}
    THEN Return([invoice |-> None, validation |-> EmptyDict])
    ELSE LET v == validate_invoice(The(resp.invoice))
         IN  IF v.kind = "raise" THEN v
             ELSE Return([invoice |-> resp.invoice, validation |-> v.value])

\* the result of extract_structured_data(raw_text, llm_model) when the
\* service answers resp: ollama.chat rejects a request that names no model
\* and raises when the service fails; a response that is no Invoice gives (None, {});
\* validate_invoice runs outside the try
extract_structured_data(model, resp) ==
    IF model = None THEN Raise("MissingModelError")
    ELSE IF resp.kind = "unavailable" THEN Raise("LlmServiceError")
    ELSE IF resp.kind = "malformed"
         THEN Return([invoice |-> None, validation |-> EmptyDict])
    ELSE LET v == validate_invoice(The(resp.invoice))
         IN  IF v.kind = "raise" THEN v
             ELSE Return([invoice |-> resp.invoice, validation |-> v.value])

\* the calls extract_structured_data(raw_text, llm_model) makes, in order
StructuredCalls(model, resp) ==
    LET res == extract_structured_data(model, resp)
        chat_ok == model # None /\ resp.kind # "unavailable"
    IN  <<Call("extract_structured_data", None, res.kind = "return"),
          Call("ollama.chat", model, chat_ok)>>
        \o (IF ~chat_ok THEN << >>
            ELSE <<Call("model_validate_json", None, resp.kind = "conformant")>>
                 \o (IF resp.kind = "conformant"
                     THEN <<Call("validate_invoice", None, res.kind = "return")>>
                     ELSE << >>))

\* invoice, validation = extract_structured_data(raw_text, llm_model);
\* return invoice, validation, pdf_type
ExtractStructuredData(resp) ==
    /\ pc = "llm"
    /\ calls' = calls \o StructuredCalls(llm_model, resp)
    /\ LET res == extract_structured_data(llm_model, resp)
       IN  IF res.kind = "raise"
           THEN /\ outcome' = res
                /\ pc' = "raised"
                /\ UNCHANGED <<invoice, validation>>
           ELSE /\ invoice' = res.value.invoice
                /\ validation' = res.value.validation
                /\ outcome' = Return(<<res.value.invoice, res.value.validation,
                                       The(pdf_type)>>)
                /\ pc' = "returned"
    /\ UNCHANGED <<entry, upload, llm_model, pdf_type, raw_text, http_status>>

\* POST /extract after process_pdf: an exception leaves the handler
\* uncaught and the framework answers 500; an absent Invoice is a 422;
\* otherwise the response body is returned with 200
ExtractInvoiceEnd ==
    /\ entry = "http"
    /\ pc \in {"returned", "raised"}
    /\ http_status' = IF pc = "raised" THEN 500
                      ELSE IF invoice = None THEN 422
                      ELSE 200
    /\ pc' = "done"
    /\ UNCHANGED <<entry, upload, llm_model, pdf_type, raw_text, calls,
                   invoice, validation, outcome>>

Next ==
    \/ \E f \in FilenameInputs, m \in FormModelInputs, p \in PdfInputs :
          ExtractInvoiceBegin(f, m, p)
    \/ \E p \in PdfInputs, m \in LlmModelInputs : ProcessPdfBegin(p, m)
    \/ DetectPdfType
    \/ ExtractTextDigital
    \/ \E available \in BOOLEAN : ExtractTextScan(available)
    \/ \E resp \in LlmResponses : ExtractStructuredData(resp)
    \/ ExtractInvoiceEnd

Spec == Init /\ [][Next]_vars

(***************************************************************************)
(* Properties.                                                             *)
(***************************************************************************)
PresenceFlagNames ==
    {"invoice_date_missing", "invoice_number_missing", "diagnosis_missing",
     "treatments_missing", "total_amount_missing",
     "doctor_first_name_missing", "doctor_last_name_missing",
     "doctor_specialty_missing", "doctor_practice_address_missing",
     "patient_first_name_missing", "patient_last_name_missing",
     "patient_date_of_birth_missing",
     "patient_social_security_number_missing"}

ConsistencyFlagNames ==
    {"total_mismatch", "last_treatment_equals_sum_of_others",
     "last_treatment_looks_like_sum"}

\* validate_invoice was called on the Invoice in invoice and has ended
Validated == entry = "validate" /\ pc = "done"

\* the validated Invoice has treatments and a present nonzero total_amount
HasTreatmentsAndTotal ==
    /\ The(invoice).treatments # None
    /\ The(The(invoice).treatments) # << >>
    /\ The(invoice).total_amount # None
    /\ The(The(invoice).total_amount) # 0

RECURSIVE PresentSum(_)
\* the sum of the amounts of the treatments, absent amounts skipped
PresentSum(ts) ==
    IF ts = << >> THEN 0
    ELSE (IF ts[1].amount = None THEN 0 ELSE The(ts[1].amount))
         + PresentSum(Tail(ts))

\* some call of the log is to fn
Called(fn) == \E i \in 1..Len(calls) : calls[i].fn = fn

\* the position in the log of the only call to fn
IndexOf(fn) == CHOOSE i \in 1..Len(calls) : calls[i].fn = fn

\* the number of calls to fn in the log
CountOf(fn) == Cardinality({i \in 1..Len(calls) : calls[i].fn = fn})

\* the position of the request to the generative extraction service
LlmRequestAt(i) ==
    /\ i \in 2..Len(calls)
    /\ calls[i].fn = "ollama.chat"
    /\ calls[i - 1].fn = "extract_structured_data"

\* the position of the request to the OCR service
OcrRequestAt(i) ==
    /\ i \in 2..Len(calls)
    /\ calls[i].fn = "ollama.chat"
    /\ calls[i - 1].fn = "extract_text_scan"

(* C1: whenever the PDF was classified and text extraction and the model   *)
(* call returned, process_pdf returns a triple and does not raise: the     *)
(* triple is (absent Invoice, empty mapping, label) when the response was  *)
(* no Invoice and (Invoice, report with score and flags, label) otherwise, *)
(* and the Invoice is absent exactly when the report is the empty mapping. *)
C1_ProcessPdfReturnsTriple ==
    (\E i \in 1..Len(calls) : LlmRequestAt(i) /\ calls[i].ok) =>
        /\ outcome.kind = "return"
        /\ outcome.value[3] = The(pdf_type)
        /\ (outcome.value[1] = None) = (outcome.value[2] = EmptyDict)
        /\ outcome.value[1] # None =>
              DOMAIN outcome.value[2] = {"score", "flags"}
        /\ (outcome.value[1] = None) =
              (\E i \in 1..Len(calls) :
                  calls[i].fn = "model_validate_json" /\ ~calls[i].ok)

(* C2: validate_invoice never fails: on every Invoice it returns a report  *)
(* rather than raising.                                                    *)
C2_ValidateNeverRaises ==
    Validated => outcome.kind = "return"

(* C3: every report validate_invoice returns has exactly the 16 flag names *)
(* (13 presence, 3 consistency); its score is 1 - (true flags)/16 rounded  *)
(* to two decimals (nearest hundredth, a tie to the even one), lies in     *)
(* [0, 1], and is 1.0 exactly when no flag is true.                        *)
C3_ScoreAndFlagSet ==
    (Validated /\ outcome.kind = "return") =>
        LET flags == validation.flags
            n == Cardinality({f \in DOMAIN flags : flags[f] = TRUE})
            score == validation.score
            err == 16 * score - 100 * (16 - n)
        IN  /\ DOMAIN flags = PresenceFlagNames \cup ConsistencyFlagNames
            /\ Cardinality(DOMAIN flags) = 16
            /\ Cardinality(PresenceFlagNames) = 13
            /\ Cardinality(ConsistencyFlagNames) = 3
            /\ score \in 0..100
            /\ err \in -8..8
            /\ err \in {-8, 8} => score % 2 = 0
            /\ (score = 100) = (n = 0)

\* a report with six true flags, where 1 - 6/16 = 0.625 is a tie
C3_Witness ==
    /\ Validated
    /\ outcome.kind = "return"
    /\ Cardinality({f \in DOMAIN validation.flags : validation.flags[f]}) = 6
    /\ validation.score = 62
    /\ validation.flags.total_mismatch

(* C4: whenever treatments is absent or empty, or total_amount is absent   *)
(* or zero, validate_invoice returns a report whose three consistency      *)
(* flags are false; an Invoice with every optional field absent gets all   *)
(* 13 presence flags true and the three consistency flags false.           *)
C4_ConsistencyFlagsDefaultFalse ==
    (Validated /\ ~HasTreatmentsAndTotal) =>
        /\ outcome.kind = "return"
        /\ \A f \in ConsistencyFlagNames : validation.flags[f] = FALSE
        /\ (\A k \in DOMAIN The(invoice) : The(invoice)[k] = None) =>
              \A f \in PresenceFlagNames : validation.flags[f] = TRUE

\* treatments whose amounts differ from a total_amount of zero
C4_Witness ==
    /\ Validated
    /\ The(invoice).treatments # None
    /\ The(The(invoice).treatments) # << >>
    /\ PresentSum(The(The(invoice).treatments)) > 0
    /\ The(invoice).total_amount = Some(0)
    /\ outcome.kind = "return"
    /\ ~validation.flags.total_mismatch

(* C5: for every Invoice with non-empty treatments and a present nonzero   *)
(* total_amount for which validate_invoice returns a report,               *)
(* last_treatment_equals_sum_of_others is true exactly when (sum of all    *)
(* present treatment amounts - the amount of the last treatment of the     *)
(* sequence) equals the amount of the last treatment of the sequence.      *)
C5_LastEqualsSumOfOthers ==
    (Validated /\ HasTreatmentsAndTotal /\ outcome.kind = "return") =>
        LET ts == The(The(invoice).treatments)
            last == ts[Len(ts)].amount
        IN  validation.flags.last_treatment_equals_sum_of_others =
                (/\ last # None
                 /\ PresentSum(ts) - The(last) = The(last))

(* C6: for every Invoice with non-empty treatments and a present nonzero   *)
(* total_amount, validate_invoice returns a report whose total_mismatch is *)
(* true exactly when |sum of the present treatment amounts - total_amount| *)
(* is strictly greater than 0.05.                                          *)
C6_TotalMismatch ==
    (Validated /\ HasTreatmentsAndTotal) =>
        /\ outcome.kind = "return"
        /\ LET ts == The(The(invoice).treatments)
               diff == PresentSum(ts) - The(The(invoice).total_amount)
           IN  validation.flags.total_mismatch =
                   (\/ 100 * diff > 5 * AmountScale
                    \/ 100 * diff < -5 * AmountScale)

(* C7: a failed request to the OCR service or to the generative extraction *)
(* service ends process_pdf with an error, never with a returned triple,   *)
(* and the endpoint does not answer it as an absent Invoice (422); the     *)
(* (absent Invoice, empty mapping) triple is returned only when the model  *)
(* answered and its response failed schema validation.                     *)
C7_ServiceErrorsNotMasked ==
    /\ (\E i \in 1..Len(calls) : calls[i].fn = "ollama.chat" /\ ~calls[i].ok) =>
          /\ outcome.kind = "raise"
          /\ http_status # 422
    /\ (outcome.kind = "return" /\ outcome.value[1] = None) =>
          /\ outcome.value[2] = EmptyDict
          /\ \E i \in 1..Len(calls) : LlmRequestAt(i) /\ calls[i].ok
          /\ \E i \in 1..Len(calls) :
                calls[i].fn = "model_validate_json" /\ ~calls[i].ok

\* the generative extraction service failed on a request naming a model
C7_Witness ==
    /\ \E i \in 1..Len(calls) :
          LlmRequestAt(i) /\ ~calls[i].ok /\ calls[i].model # None
    /\ outcome.kind = "raise"
    /\ http_status = 500

(* C8: when the uploaded bytes cannot be opened as a PDF, classification   *)
(* gives no label but an error, and POST /extract answers with a 4xx       *)
(* status.                                                                 *)
C8_UnreadablePdfIsClientError ==
    (upload # None /\ ~The(upload).pdf.readable
         /\ pc \in {"raised", "done"} /\ Called("detect_pdf_type")) =>
        /\ pdf_type = None
        /\ outcome.kind = "raise"
        /\ (entry = "http" /\ pc = "done") => http_status \in 400..499

(* C9: the request to the generative extraction service names the model    *)
(* override when one was given and the light model when none was given, at *)
(* every entry point.                                                      *)
C9_DefaultModelIsLight ==
    \A i \in 1..Len(calls) :
        LlmRequestAt(i) =>
            LET given == The(upload).model
                override == given # None /\ The(given) # ""
            IN  calls[i].model =
                    Some(IF override THEN The(given) ELSE LLM_MODEL_LIGHT)

(* C10: the calls of one process_pdf run are in the order classify, text   *)
(* extraction, structured extraction, validation; exactly one text         *)
(* extraction strategy runs, the digital one iff the label is "digital",   *)
(* and the OCR service is requested only for "scan"; the generative        *)
(* extraction service is requested at most once; validate_invoice runs     *)
(* only after a successful schema parse.                                   *)
C10_StepOrder ==
    LET text_calls == {i \in 1..Len(calls) :
                          calls[i].fn \in {"extract_text_digital",
                                           "extract_text_scan"}}
    IN  /\ calls # << >> => calls[1].fn = "detect_pdf_type"
        /\ CountOf("detect_pdf_type") <= 1
        /\ Cardinality(text_calls) <= 1
        /\ \A i \in text_calls :
              /\ i = 2
              /\ calls[1].ok
              /\ (calls[i].fn = "extract_text_digital") =
                     (pdf_type = Some("digital"))
              /\ (calls[i].fn = "extract_text_scan") = (pdf_type = Some("scan"))
        /\ \A i \in 1..Len(calls) : OcrRequestAt(i) => pdf_type = Some("scan")
        /\ Cardinality({i \in 1..Len(calls) : OcrRequestAt(i)}) <= 1
        /\ Cardinality({i \in 1..Len(calls) : LlmRequestAt(i)}) <= 1
        /\ CountOf("extract_structured_data") <= 1
        /\ Called("extract_structured_data") =>
              /\ Cardinality(text_calls) = 1
              /\ \A i \in text_calls :
                    i < IndexOf("extract_structured_data") /\ calls[i].ok
        /\ CountOf("validate_invoice") <= 1
        /\ Called("validate_invoice") =>
              /\ Called("model_validate_json")
              /\ calls[IndexOf("model_validate_json")].ok
              /\ IndexOf("extract_structured_data") < IndexOf("model_validate_json")
              /\ IndexOf("model_validate_json") < IndexOf("validate_invoice")
        /\ pc \in {"returned", "raised", "done"} /\ entry = "http" =>
              (http_status # 400 => Called("detect_pdf_type"))

\* a scanned PDF went through OCR, structured extraction and validation
C10_Witness ==
    /\ pc = "returned"
    /\ pdf_type = Some("scan")
    /\ Len(calls) = 7
    /\ calls[7].fn = "validate_invoice"
    /\ calls[7].ok

====
